---------------------------- MODULE Spec2Model ----------------------------
(***************************************************************************)
(* A model of intel/topology.py (CPU-Manager-for-Kubernetes): the kernel   *)
(* command line parser (parse_isolcpus), the lscpu parser (parse) that     *)
(* builds the Platform -> Socket -> Core -> CPU tree, and the queries and  *)
(* the two allocation orders (packed, spread) of a Platform.               *)
(*                                                                         *)
(* Representation.                                                         *)
(*  - A Python str is a sequence of one-character strings; a character    *)
(*    beyond ASCII is the string "U+" and its code point in hex, "U+00A0". *)
(*  - A dict / OrderedDict is a sequence of <<key, value>> pairs in        *)
(*    insertion order (Python 3.7+ dict order).                            *)
(*  - A call that can raise returns a record [exc, val]; exc = "None"      *)
(*    when nothing was raised.                                             *)
(*  - A Core object handed out by a query is the reference                 *)
(*    [socket |-> socket_id, core |-> core_id] of that object.             *)
(*  - None is the string "None" where the other values are strings, and    *)
(*    NoneVal among the arguments and results of the Platform methods,     *)
(*    which are tagged by their type: [mode |-> m], [pool |-> p],          *)
(*    [id |-> n], [bool |-> b], [list |-> l], [socket |-> s].              *)
(***************************************************************************)
EXTENDS Integers, Sequences, FiniteSets, TLC

VARIABLES
    pc,             \* where the program is: "isolcpus", "isolcpus_done",
                    \* "parse", "ready", "while", "for", "failed"
    cmdline_src,    \* the fields the kernel command line was written from
    cmdline,        \* the text handed to parse_isolcpus
    isol,           \* what parse_isolcpus(cmdline) gave: [exc, val]
    isolated_cpus,  \* parse's second argument
    sockets,        \* Platform.sockets: odict socket_id -> Socket
    exc,            \* the exception parse ended with, "None" if none
    call,           \* the Platform method running or last run, its arguments
    ret,            \* what the last finished Platform method returned
    isolated_cores, \* allocate_spread: its argument
    socket_cores,   \* allocate_spread: odict socket_id -> list of Core
    for_sockets,    \* allocate_spread: the list `sockets` of one pass
    for_i,          \* allocate_spread: position of the for loop in it
    output_cores    \* allocate_spread: the list being built

vars == <<pc, cmdline_src, cmdline, isol, isolated_cpus, sockets, exc,
          call, ret, isolated_cores, socket_cores, for_sockets,
          for_i, output_cores>>

-----------------------------------------------------------------------------
(* Bounds of the model.                                                     *)

\* fields on one kernel command line
MaxFields == 2
\* CPU objects a Platform is built of
MaxCpus == 4
\* cores of one Platform that carry a pool at the same time
MaxPooled == 2

-----------------------------------------------------------------------------
(* Python str, list and dict operations.                                    *)

None == "None"

Ok(v) == [exc |-> "None", val |-> v]

Raise(e) == [exc |-> e, val |-> <<>>]

\* the control characters 0B, 1C, 1D, 1E and 1F of ASCII
VT == ""

FS == ""

GS == ""

RS == ""

US == ""

\* str.isspace(): what str.rstrip() and str.split() take for whitespace
Whitespace ==
    {
     "\t", "\n", VT, "\f", "\r", FS, GS, RS, US, " ", "U+0085", "U+00A0",
     "U+1680", "U+2000", "U+2001", "U+2002", "U+2003", "U+2004", "U+2005",
     "U+2006", "U+2007", "U+2008", "U+2009", "U+200A", "U+2028", "U+2029",
     "U+202F", "U+205F", "U+3000"
    }

\* what int() ignores around a number: blank, \t, \n, VT, \f, \r, and every
\* space beyond ASCII; FS, GS, RS and US are not ignored
IntWhitespace == Whitespace \ {FS, GS, RS, US}

\* the decimal digits int() reads (str.isdecimal()), ten to a script, each
\* script from its zero to its nine
DigitBlocks ==
    <<
     <<"0", "1", "2", "3", "4", "5", "6", "7", "8", "9">>,
     <<"U+0660", "U+0661", "U+0662", "U+0663", "U+0664", "U+0665", "U+0666", "U+0667", "U+0668", "U+0669">>,
     <<"U+06F0", "U+06F1", "U+06F2", "U+06F3", "U+06F4", "U+06F5", "U+06F6", "U+06F7", "U+06F8", "U+06F9">>,
     <<"U+07C0", "U+07C1", "U+07C2", "U+07C3", "U+07C4", "U+07C5", "U+07C6", "U+07C7", "U+07C8", "U+07C9">>,
     <<"U+0966", "U+0967", "U+0968", "U+0969", "U+096A", "U+096B", "U+096C", "U+096D", "U+096E", "U+096F">>,
     <<"U+09E6", "U+09E7", "U+09E8", "U+09E9", "U+09EA", "U+09EB", "U+09EC", "U+09ED", "U+09EE", "U+09EF">>,
     <<"U+0A66", "U+0A67", "U+0A68", "U+0A69", "U+0A6A", "U+0A6B", "U+0A6C", "U+0A6D", "U+0A6E", "U+0A6F">>,
     <<"U+0AE6", "U+0AE7", "U+0AE8", "U+0AE9", "U+0AEA", "U+0AEB", "U+0AEC", "U+0AED", "U+0AEE", "U+0AEF">>,
     <<"U+0B66", "U+0B67", "U+0B68", "U+0B69", "U+0B6A", "U+0B6B", "U+0B6C", "U+0B6D", "U+0B6E", "U+0B6F">>,
     <<"U+0BE6", "U+0BE7", "U+0BE8", "U+0BE9", "U+0BEA", "U+0BEB", "U+0BEC", "U+0BED", "U+0BEE", "U+0BEF">>,
     <<"U+0C66", "U+0C67", "U+0C68", "U+0C69", "U+0C6A", "U+0C6B", "U+0C6C", "U+0C6D", "U+0C6E", "U+0C6F">>,
     <<"U+0CE6", "U+0CE7", "U+0CE8", "U+0CE9", "U+0CEA", "U+0CEB", "U+0CEC", "U+0CED", "U+0CEE", "U+0CEF">>,
     <<"U+0D66", "U+0D67", "U+0D68", "U+0D69", "U+0D6A", "U+0D6B", "U+0D6C", "U+0D6D", "U+0D6E", "U+0D6F">>,
     <<"U+0DE6", "U+0DE7", "U+0DE8", "U+0DE9", "U+0DEA", "U+0DEB", "U+0DEC", "U+0DED", "U+0DEE", "U+0DEF">>,
     <<"U+0E50", "U+0E51", "U+0E52", "U+0E53", "U+0E54", "U+0E55", "U+0E56", "U+0E57", "U+0E58", "U+0E59">>,
     <<"U+0ED0", "U+0ED1", "U+0ED2", "U+0ED3", "U+0ED4", "U+0ED5", "U+0ED6", "U+0ED7", "U+0ED8", "U+0ED9">>,
     <<"U+0F20", "U+0F21", "U+0F22", "U+0F23", "U+0F24", "U+0F25", "U+0F26", "U+0F27", "U+0F28", "U+0F29">>,
     <<"U+1040", "U+1041", "U+1042", "U+1043", "U+1044", "U+1045", "U+1046", "U+1047", "U+1048", "U+1049">>,
     <<"U+1090", "U+1091", "U+1092", "U+1093", "U+1094", "U+1095", "U+1096", "U+1097", "U+1098", "U+1099">>,
     <<"U+17E0", "U+17E1", "U+17E2", "U+17E3", "U+17E4", "U+17E5", "U+17E6", "U+17E7", "U+17E8", "U+17E9">>,
     <<"U+1810", "U+1811", "U+1812", "U+1813", "U+1814", "U+1815", "U+1816", "U+1817", "U+1818", "U+1819">>,
     <<"U+1946", "U+1947", "U+1948", "U+1949", "U+194A", "U+194B", "U+194C", "U+194D", "U+194E", "U+194F">>,
     <<"U+19D0", "U+19D1", "U+19D2", "U+19D3", "U+19D4", "U+19D5", "U+19D6", "U+19D7", "U+19D8", "U+19D9">>,
     <<"U+1A80", "U+1A81", "U+1A82", "U+1A83", "U+1A84", "U+1A85", "U+1A86", "U+1A87", "U+1A88", "U+1A89">>,
     <<"U+1A90", "U+1A91", "U+1A92", "U+1A93", "U+1A94", "U+1A95", "U+1A96", "U+1A97", "U+1A98", "U+1A99">>,
     <<"U+1B50", "U+1B51", "U+1B52", "U+1B53", "U+1B54", "U+1B55", "U+1B56", "U+1B57", "U+1B58", "U+1B59">>,
     <<"U+1BB0", "U+1BB1", "U+1BB2", "U+1BB3", "U+1BB4", "U+1BB5", "U+1BB6", "U+1BB7", "U+1BB8", "U+1BB9">>,
     <<"U+1C40", "U+1C41", "U+1C42", "U+1C43", "U+1C44", "U+1C45", "U+1C46", "U+1C47", "U+1C48", "U+1C49">>,
     <<"U+1C50", "U+1C51", "U+1C52", "U+1C53", "U+1C54", "U+1C55", "U+1C56", "U+1C57", "U+1C58", "U+1C59">>,
     <<"U+A620", "U+A621", "U+A622", "U+A623", "U+A624", "U+A625", "U+A626", "U+A627", "U+A628", "U+A629">>,
     <<"U+A8D0", "U+A8D1", "U+A8D2", "U+A8D3", "U+A8D4", "U+A8D5", "U+A8D6", "U+A8D7", "U+A8D8", "U+A8D9">>,
     <<"U+A900", "U+A901", "U+A902", "U+A903", "U+A904", "U+A905", "U+A906", "U+A907", "U+A908", "U+A909">>,
     <<"U+A9D0", "U+A9D1", "U+A9D2", "U+A9D3", "U+A9D4", "U+A9D5", "U+A9D6", "U+A9D7", "U+A9D8", "U+A9D9">>,
     <<"U+A9F0", "U+A9F1", "U+A9F2", "U+A9F3", "U+A9F4", "U+A9F5", "U+A9F6", "U+A9F7", "U+A9F8", "U+A9F9">>,
     <<"U+AA50", "U+AA51", "U+AA52", "U+AA53", "U+AA54", "U+AA55", "U+AA56", "U+AA57", "U+AA58", "U+AA59">>,
     <<"U+ABF0", "U+ABF1", "U+ABF2", "U+ABF3", "U+ABF4", "U+ABF5", "U+ABF6", "U+ABF7", "U+ABF8", "U+ABF9">>,
     <<"U+FF10", "U+FF11", "U+FF12", "U+FF13", "U+FF14", "U+FF15", "U+FF16", "U+FF17", "U+FF18", "U+FF19">>,
     <<"U+104A0", "U+104A1", "U+104A2", "U+104A3", "U+104A4", "U+104A5", "U+104A6", "U+104A7", "U+104A8", "U+104A9">>,
     <<"U+10D30", "U+10D31", "U+10D32", "U+10D33", "U+10D34", "U+10D35", "U+10D36", "U+10D37", "U+10D38", "U+10D39">>,
     <<"U+11066", "U+11067", "U+11068", "U+11069", "U+1106A", "U+1106B", "U+1106C", "U+1106D", "U+1106E", "U+1106F">>,
     <<"U+110F0", "U+110F1", "U+110F2", "U+110F3", "U+110F4", "U+110F5", "U+110F6", "U+110F7", "U+110F8", "U+110F9">>,
     <<"U+11136", "U+11137", "U+11138", "U+11139", "U+1113A", "U+1113B", "U+1113C", "U+1113D", "U+1113E", "U+1113F">>,
     <<"U+111D0", "U+111D1", "U+111D2", "U+111D3", "U+111D4", "U+111D5", "U+111D6", "U+111D7", "U+111D8", "U+111D9">>,
     <<"U+112F0", "U+112F1", "U+112F2", "U+112F3", "U+112F4", "U+112F5", "U+112F6", "U+112F7", "U+112F8", "U+112F9">>,
     <<"U+11450", "U+11451", "U+11452", "U+11453", "U+11454", "U+11455", "U+11456", "U+11457", "U+11458", "U+11459">>,
     <<"U+114D0", "U+114D1", "U+114D2", "U+114D3", "U+114D4", "U+114D5", "U+114D6", "U+114D7", "U+114D8", "U+114D9">>,
     <<"U+11650", "U+11651", "U+11652", "U+11653", "U+11654", "U+11655", "U+11656", "U+11657", "U+11658", "U+11659">>,
     <<"U+116C0", "U+116C1", "U+116C2", "U+116C3", "U+116C4", "U+116C5", "U+116C6", "U+116C7", "U+116C8", "U+116C9">>,
     <<"U+11730", "U+11731", "U+11732", "U+11733", "U+11734", "U+11735", "U+11736", "U+11737", "U+11738", "U+11739">>,
     <<"U+118E0", "U+118E1", "U+118E2", "U+118E3", "U+118E4", "U+118E5", "U+118E6", "U+118E7", "U+118E8", "U+118E9">>,
     <<"U+11950", "U+11951", "U+11952", "U+11953", "U+11954", "U+11955", "U+11956", "U+11957", "U+11958", "U+11959">>,
     <<"U+11C50", "U+11C51", "U+11C52", "U+11C53", "U+11C54", "U+11C55", "U+11C56", "U+11C57", "U+11C58", "U+11C59">>,
     <<"U+11D50", "U+11D51", "U+11D52", "U+11D53", "U+11D54", "U+11D55", "U+11D56", "U+11D57", "U+11D58", "U+11D59">>,
     <<"U+11DA0", "U+11DA1", "U+11DA2", "U+11DA3", "U+11DA4", "U+11DA5", "U+11DA6", "U+11DA7", "U+11DA8", "U+11DA9">>,
     <<"U+16A60", "U+16A61", "U+16A62", "U+16A63", "U+16A64", "U+16A65", "U+16A66", "U+16A67", "U+16A68", "U+16A69">>,
     <<"U+16AC0", "U+16AC1", "U+16AC2", "U+16AC3", "U+16AC4", "U+16AC5", "U+16AC6", "U+16AC7", "U+16AC8", "U+16AC9">>,
     <<"U+16B50", "U+16B51", "U+16B52", "U+16B53", "U+16B54", "U+16B55", "U+16B56", "U+16B57", "U+16B58", "U+16B59">>,
     <<"U+1D7CE", "U+1D7CF", "U+1D7D0", "U+1D7D1", "U+1D7D2", "U+1D7D3", "U+1D7D4", "U+1D7D5", "U+1D7D6", "U+1D7D7">>,
     <<"U+1D7D8", "U+1D7D9", "U+1D7DA", "U+1D7DB", "U+1D7DC", "U+1D7DD", "U+1D7DE", "U+1D7DF", "U+1D7E0", "U+1D7E1">>,
     <<"U+1D7E2", "U+1D7E3", "U+1D7E4", "U+1D7E5", "U+1D7E6", "U+1D7E7", "U+1D7E8", "U+1D7E9", "U+1D7EA", "U+1D7EB">>,
     <<"U+1D7EC", "U+1D7ED", "U+1D7EE", "U+1D7EF", "U+1D7F0", "U+1D7F1", "U+1D7F2", "U+1D7F3", "U+1D7F4", "U+1D7F5">>,
     <<"U+1D7F6", "U+1D7F7", "U+1D7F8", "U+1D7F9", "U+1D7FA", "U+1D7FB", "U+1D7FC", "U+1D7FD", "U+1D7FE", "U+1D7FF">>,
     <<"U+1E140", "U+1E141", "U+1E142", "U+1E143", "U+1E144", "U+1E145", "U+1E146", "U+1E147", "U+1E148", "U+1E149">>,
     <<"U+1E2F0", "U+1E2F1", "U+1E2F2", "U+1E2F3", "U+1E2F4", "U+1E2F5", "U+1E2F6", "U+1E2F7", "U+1E2F8", "U+1E2F9">>,
     <<"U+1E950", "U+1E951", "U+1E952", "U+1E953", "U+1E954", "U+1E955", "U+1E956", "U+1E957", "U+1E958", "U+1E959">>,
     <<"U+1FBF0", "U+1FBF1", "U+1FBF2", "U+1FBF3", "U+1FBF4", "U+1FBF5", "U+1FBF6", "U+1FBF7", "U+1FBF8", "U+1FBF9">>
    >>

DigitChars == UNION {{DigitBlocks[b][k] : k \in 1..10} : b \in 1..Len(DigitBlocks)}

\* the value of a digit: its place in its script
DigitVal(c) ==
    (CHOOSE k \in 1..10 : \E b \in 1..Len(DigitBlocks) : DigitBlocks[b][k] = c) - 1

RECURSIVE Concat(_)
\* the concatenation of a list of lists
Concat(ls) == IF ls = <<>> THEN <<>> ELSE Head(ls) \o Concat(Tail(ls))

Contains(s, x) == \E i \in 1..Len(s) : s[i] = x

RECURSIVE SplitFrom(_, _, _, _, _)
SplitFrom(s, sep, i, cur, acc) ==
    IF i > Len(s) THEN Append(acc, cur)
    ELSE IF s[i] = sep THEN SplitFrom(s, sep, i + 1, <<>>, Append(acc, cur))
    ELSE SplitFrom(s, sep, i + 1, Append(cur, s[i]), acc)

\* str.split(sep) for a one-character sep: empty pieces are kept
Split(s, sep) == SplitFrom(s, sep, 1, <<>>, <<>>)

RECURSIVE RStrip(_)
\* str.rstrip(): trailing whitespace removed
RStrip(s) ==
    IF s # <<>> /\ s[Len(s)] \in Whitespace
    THEN RStrip(SubSeq(s, 1, Len(s) - 1)) ELSE s

RECURSIVE SplitWsFrom(_, _, _, _)
SplitWsFrom(s, i, cur, acc) ==
    LET flushed == IF cur = <<>> THEN acc ELSE Append(acc, cur) IN
    IF i > Len(s) THEN flushed
    ELSE IF s[i] \in Whitespace THEN SplitWsFrom(s, i + 1, <<>>, flushed)
    ELSE SplitWsFrom(s, i + 1, Append(cur, s[i]), acc)

\* str.split(): split on runs of whitespace, no empty pieces
SplitWs(s) == SplitWsFrom(s, 1, <<>>, <<>>)

StartsWith(s, c) == s # <<>> /\ s[1] = c

RECURSIVE DigitsValue(_)
DigitsValue(s) ==
    IF s = <<>> THEN 0
    ELSE 10 * DigitsValue(SubSeq(s, 1, Len(s) - 1)) + DigitVal(s[Len(s)])

RECURSIVE LStrip(_)
\* int(): what is left of s without the leading characters int() ignores
LStrip(s) == IF s # <<>> /\ s[1] \in IntWhitespace THEN LStrip(Tail(s)) ELSE s

RECURSIVE IntRStrip(_)
\* int(): what is left of s without the trailing characters int() ignores
IntRStrip(s) ==
    IF s # <<>> /\ s[Len(s)] \in IntWhitespace
    THEN IntRStrip(SubSeq(s, 1, Len(s) - 1)) ELSE s

\* int(s): blanks around it dropped, an optional sign, then decimal digits
\* with single underscores allowed between them; anything else is a ValueError
int(s) ==
    LET t      == LStrip(IntRStrip(s))
        signed == t # <<>> /\ t[1] \in {"-", "+"}
        body   == IF signed THEN Tail(t) ELSE t
        n      == Len(body)
        wellformed ==
            /\ n > 0
            /\ body[1] \in DigitChars
            /\ body[n] \in DigitChars
            /\ \A i \in 1..n : body[i] \in DigitChars \cup {"_"}
            /\ \A i \in 1..(n - 1) : ~(body[i] = "_" /\ body[i + 1] = "_")
        digits == SelectSeq(body, LAMBDA c : c # "_")
    IN  IF ~wellformed THEN Raise("ValueError")
        ELSE Ok(IF signed /\ t[1] = "-" THEN 0 - DigitsValue(digits)
                ELSE DigitsValue(digits))

\* list(range(a, b)): a, a+1, ..., b-1
range(a, b) == IF b > a THEN [k \in 1..(b - a) |-> a + k - 1] ELSE <<>>

\* set(list)
ToSet(s) == {s[i] : i \in 1..Len(s)}

-----------------------------------------------------------------------------
(* parse_isolcpus and parse_cpus_from_isolcpus.                             *)

RECURSIVE parse_cpus_loop(_, _, _)
\* the for loop of parse_cpus_from_isolcpus, from position i with list cpus
parse_cpus_loop(cpus_str, i, cpus) ==
    IF i > Len(cpus_str) THEN Ok(cpus)
    ELSE LET cpu_id == cpus_str[i] IN
         IF ~Contains(cpu_id, "-")
         THEN LET n == int(cpu_id) IN
              IF n.exc # None THEN Raise(n.exc)
              ELSE parse_cpus_loop(cpus_str, i + 1, Append(cpus, n.val))
         ELSE LET cpu_range == Split(cpu_id, "-") IN
              IF Len(cpu_range) # 2
              THEN parse_cpus_loop(cpus_str, i + 1, cpus)
              ELSE LET lo == int(cpu_range[1])
                       hi == int(cpu_range[2])
                   IN  IF lo.exc # None THEN Raise(lo.exc)
                       ELSE IF hi.exc # None THEN Raise(hi.exc)
                       ELSE parse_cpus_loop(cpus_str, i + 1,
                                cpus \o range(lo.val, hi.val + 1))

parse_cpus_from_isolcpus(cpus_str) == parse_cpus_loop(cpus_str, 1, <<>>)

KeyIsolcpus == <<"i", "s", "o", "l", "c", "p", "u", "s">>

KeyRcuNocbs == <<"r", "c", "u", "_", "n", "o", "c", "b", "s">>

RECURSIVE parse_isolcpus_loop(_, _, _, _)
\* the for loop over cmdline_fields, from position i
parse_isolcpus_loop(cmdline_fields, i, isol_cpus, nocbs_cpus) ==
    IF i > Len(cmdline_fields)
    THEN Ok([isol_cpus |-> isol_cpus, nocbs_cpus |-> nocbs_cpus])
    ELSE LET pair == Split(cmdline_fields[i], "=") IN
         IF Len(pair) # 2
         THEN parse_isolcpus_loop(cmdline_fields, i + 1, isol_cpus, nocbs_cpus)
         ELSE LET key   == pair[1]
                  value == pair[2]
                  a == IF key = KeyIsolcpus
                       THEN parse_cpus_from_isolcpus(Split(value, ","))
                       ELSE Ok(<<>>)
                  b == IF key = KeyRcuNocbs
                       THEN parse_cpus_from_isolcpus(Split(value, ","))
                       ELSE Ok(<<>>)
              IN  IF a.exc # None THEN Raise(a.exc)
                  ELSE IF b.exc # None THEN Raise(b.exc)
                  ELSE parse_isolcpus_loop(cmdline_fields, i + 1,
                           isol_cpus \o a.val, nocbs_cpus \o b.val)

\* a faulty variant: the isolcpus ids are returned too
isolcpus_result_with_isol(isol_cpus, nocbs_cpus) ==
    IF isol_cpus # <<>> /\ nocbs_cpus # <<>>
    THEN ToSet(isol_cpus) \cup ToSet(nocbs_cpus)
    ELSE {}

\* the lines after the loop: nocbs ids not in isol_cpus, when both lists are
\* non-empty; list(set(cpus)) has no order of its own, so the result is a set
isolcpus_result(isol_cpus, nocbs_cpus) ==
    IF isol_cpus # <<>> /\ nocbs_cpus # <<>>
    THEN {x \in ToSet(nocbs_cpus) : ~Contains(isol_cpus, x)}
    ELSE {}

parse_isolcpus(text) ==
    LET cmdline_stripped == RStrip(text)
        cmdline_fields   == SplitWs(cmdline_stripped)
        lists == parse_isolcpus_loop(cmdline_fields, 1, <<>>, <<>>)
    IN  IF lists.exc # None THEN [exc |-> lists.exc, val |-> {}]
        ELSE Ok(isolcpus_result(lists.val.isol_cpus, lists.val.nocbs_cpus))

-----------------------------------------------------------------------------
(* dict / OrderedDict: a sequence of <<key, value>> pairs.                  *)

HasKey(d, k) == \E i \in 1..Len(d) : d[i][1] = k

Get(d, k) == d[CHOOSE i \in 1..Len(d) : d[i][1] = k][2]

\* d[k] = v: a new key goes last, an old key keeps its place
Put(d, k, v) ==
    IF HasKey(d, k)
    THEN [i \in 1..Len(d) |-> IF d[i][1] = k THEN <<k, v>> ELSE d[i]]
    ELSE Append(d, <<k, v>>)

\* del d[k]
Del(d, k) == SelectSeq(d, LAMBDA p : p[1] # k)

Keys(d) == [i \in 1..Len(d) |-> d[i][1]]

Values(d) == [i \in 1..Len(d) |-> d[i][2]]

\* OrderedDict(sorted(d.items(), key=...)): a stable sort of the items of d
\* by ids, the sort key of each item
SortedItems(d, ids) ==
    LET n == Len(d)
        rank(j) == 1 + Cardinality({k \in 1..n :
                        \/ ids[k] < ids[j]
                        \/ ids[k] = ids[j] /\ k < j})
    IN  [i \in 1..n |-> d[CHOOSE j \in 1..n : rank(j) = i]]

-----------------------------------------------------------------------------
(* CPU, Core, Socket.                                                       *)

CPU(cpu_id) == [cpu_id |-> cpu_id, isolated |-> FALSE]

Core(core_id, cpus) ==
    [core_id |-> core_id,
     pool    |-> None,
     cpus    |-> SortedItems(cpus, [i \in 1..Len(cpus) |-> cpus[i][2].cpu_id])]

Socket(socket_id, cores) ==
    [socket_id |-> socket_id,
     cores     |-> SortedItems(cores, [i \in 1..Len(cores) |-> cores[i][2].core_id])]

cpu_ids(core) == Keys(core.cpus)

is_isolated(core) ==
    IF Len(core.cpus) = 0 THEN FALSE
    ELSE \A i \in 1..Len(core.cpus) : core.cpus[i][2].isolated

\* the Core object: which socket owns it and its key there
CoreRef(socket, core) == [socket |-> socket.socket_id, core |-> core.core_id]

\* [core for core in self.cores.values() if keep]: keep[i] says whether the
\* i-th core passes the filter
CoresWhere(socket, keep) ==
    LET n   == Len(socket.cores)
        idx == SelectSeq([i \in 1..n |-> i], LAMBDA i : keep[i])
    IN  [k \in 1..Len(idx) |-> CoreRef(socket, socket.cores[idx[k]][2])]

Socket_get_cores(socket) ==
    CoresWhere(socket, [i \in 1..Len(socket.cores) |-> TRUE])

Socket_get_isolated_cores(socket) ==
    CoresWhere(socket, [i \in 1..Len(socket.cores) |->
                           is_isolated(socket.cores[i][2])])

Socket_get_shared_cores(socket) ==
    CoresWhere(socket, [i \in 1..Len(socket.cores) |->
                           ~is_isolated(socket.cores[i][2])])

Socket_get_cores_from_pool(socket, pool) ==
    CoresWhere(socket, [i \in 1..Len(socket.cores) |->
                           socket.cores[i][2].pool = pool])

Socket_has_isolated_cores(socket) ==
    \E i \in 1..Len(socket.cores) : is_isolated(socket.cores[i][2])

-----------------------------------------------------------------------------
(* parse: one pass of its loop over the lines, and the whole function.      *)

\* the body of `for line in lscpu_output.split("\n")` on the dict socks
parse_line(socks, line, isolated) ==
    IF line = <<>> \/ StartsWith(line, "#") THEN Ok(socks)
    ELSE
      LET cpuinfo == Split(line, ",") IN
      IF Len(cpuinfo) < 3 THEN Raise("IndexError")
      ELSE
        LET s == int(cpuinfo[3])
            c == int(cpuinfo[2])
            u == int(cpuinfo[1])
        IN
        IF s.exc # None THEN Raise(s.exc)
        ELSE IF c.exc # None THEN Raise(c.exc)
        ELSE IF u.exc # None THEN Raise(u.exc)
        ELSE
          LET socket_id == s.val
              core_id   == c.val
              cpu_id    == u.val
              socket0 == IF HasKey(socks, socket_id) THEN Get(socks, socket_id)
                         ELSE Socket(socket_id, <<>>)
              core0   == IF HasKey(socket0.cores, core_id)
                         THEN Get(socket0.cores, core_id)
                         ELSE Core(core_id, <<>>)
              cpu     == [CPU(cpu_id) EXCEPT !.isolated = cpu_id \in isolated]
              core1   == [core0 EXCEPT !.cpus = Put(@, cpu_id, cpu)]
              socket1 == [socket0 EXCEPT !.cores = Put(@, core_id, core1)]
          IN  Ok(Put(socks, socket_id, socket1))

RECURSIVE parse_loop(_, _, _, _)
parse_loop(lines, i, socks, isolated) ==
    IF i > Len(lines) THEN Ok(socks)
    ELSE LET r == parse_line(socks, lines[i], isolated) IN
         IF r.exc # None THEN r
         ELSE parse_loop(lines, i + 1, r.val, isolated)

\* parse(lscpu_output, isolated_cpus): the Platform's sockets dict
parse(lscpu_output, isolated) ==
    parse_loop(Split(lscpu_output, "\n"), 1, <<>>, isolated)

-----------------------------------------------------------------------------
(* Platform: the queries that are one expression of the sockets dict.       *)

has_isolated_cores(socks) ==
    \E i \in 1..Len(socks) : Socket_has_isolated_cores(socks[i][2])

NoneVal == [none |-> TRUE]

get_socket(socks, id) ==
    IF ~HasKey(socks, id) THEN NoneVal ELSE [socket |-> Get(socks, id)]

\* a faulty variant: each socket's list goes in front of the cores gathered so far
allocate_packed_prepend(socks, isolated) ==
    Concat([i \in 1..Len(socks) |->
              LET socket == socks[Len(socks) + 1 - i][2] IN
              IF isolated THEN Socket_get_isolated_cores(socket)
              ELSE Socket_get_cores(socket)])

allocate_packed(socks, isolated) ==
    Concat([i \in 1..Len(socks) |->
              IF isolated THEN Socket_get_isolated_cores(socks[i][2])
              ELSE Socket_get_cores(socks[i][2])])

get_shared_cores(socks) ==
    Concat([i \in 1..Len(socks) |-> Socket_get_shared_cores(socks[i][2])])

get_cores_from_pool(socks, pool) ==
    Concat([i \in 1..Len(socks) |->
              Socket_get_cores_from_pool(socks[i][2], pool)])

\* a faulty variant: no fallback to "packed"
effective_mode_as_given(mode) == mode

\* the first lines of get_cores_general: the mode that is run
effective_mode(mode) == IF mode \notin {"spread", "packed"} THEN "packed" ELSE mode

\* the first loop of allocate_spread: socket_cores[socket] = its list
spread_lists(socks, isolated) ==
    [i \in 1..Len(socks) |->
        <<socks[i][1],
          IF isolated THEN Socket_get_isolated_cores(socks[i][2])
          ELSE Socket_get_cores(socks[i][2])>>]

\* the body of `for socket in sockets` for one socket: socket_cores and
\* output_cores after it
for_body(sc, out, socket) ==
    LET cores == Get(sc, socket) IN
    IF Len(cores) = 0
    THEN [socket_cores |-> Del(sc, socket), output_cores |-> out]
    ELSE [socket_cores |-> Put(sc, socket, Tail(cores)),
          output_cores |-> Append(out, cores[1])]

RECURSIVE for_loop(_, _, _, _)
\* `for socket in sockets` from position i of the list keys
for_loop(sc, out, keys, i) ==
    IF i > Len(keys) THEN [socket_cores |-> sc, output_cores |-> out]
    ELSE LET r == for_body(sc, out, keys[i])
         IN  for_loop(r.socket_cores, r.output_cores, keys, i + 1)

RECURSIVE while_loop(_, _)
\* `while len(socket_cores) > 0`, and the return
while_loop(sc, out) ==
    IF Len(sc) > 0
    THEN LET r == for_loop(sc, out, Keys(sc), 1)
         IN  while_loop(r.socket_cores, r.output_cores)
    ELSE out

\* allocate_spread as one function of the Platform
allocate_spread(socks, isolated) == while_loop(spread_lists(socks, isolated), <<>>)

-----------------------------------------------------------------------------
(* The inputs.                                                              *)

RECURSIVE Join(_, _)
\* sep.join(parts)
Join(parts, sep) ==
    IF parts = <<>> THEN <<>>
    ELSE IF Len(parts) = 1 THEN parts[1]
    ELSE parts[1] \o <<sep>> \o Join(Tail(parts), sep)

\* the items of a comma separated cpu list: ids, ranges, a range of three, a
\* word, and the id 3 written as the Arabic-Indic digit three
Tokens ==
    <<<<"0">>, <<"2", "-", "3">>, <<"1", "-", "4">>,
      <<"1", "-", "2", "-", "3">>, <<"x">>, <<"U+0663">>>>

\* a cpu list: one item, or two different items, the earlier of Tokens first
TokenLists ==
    {<<Tokens[i]>> : i \in 1..Len(Tokens)}
    \cup {<<Tokens[p[1]], Tokens[p[2]]>> :
            p \in {q \in (1..Len(Tokens)) \X (1..Len(Tokens)) : q[1] < q[2]}}

KeyQuiet == <<"q", "u", "i", "e", "t">>

\* a field is key, then "=" and a cpu list for every element of lists
Fields ==
    {[key |-> k, lists |-> <<l>>] : k \in {KeyIsolcpus, KeyRcuNocbs}, l \in TokenLists}
    \cup {[key |-> KeyQuiet, lists |-> <<>>],
          [key |-> KeyIsolcpus, lists |-> <<>>],
          [key |-> KeyRcuNocbs, lists |-> << <<<<"0">>>>, <<<<"0">>>> >>],
          [key |-> KeyQuiet, lists |-> << <<<<"0">>>> >>]}

RECURSIVE SeqsUpTo(_, _)
\* the sequences over S of length at most n
SeqsUpTo(S, n) ==
    IF n = 0 THEN {<<>>}
    ELSE LET shorter == SeqsUpTo(S, n - 1)
         IN  shorter \cup {Append(q, x) : q \in shorter, x \in S}

FieldText(f) ==
    Join(<<f.key>> \o [i \in 1..Len(f.lists) |-> Join(f.lists[i], ",")], "=")

\* what stands between two fields of a command line
Separators == {" ", VT}

\* /proc/cmdline: the fields, each followed by the separator, and a newline
CmdlineText(fs, sep) ==
    Concat([i \in 1..Len(fs) |-> FieldText(fs[i]) \o <<sep>>]) \o <<"\n">>

DigitChar(n) ==
    CASE n = 0 -> "0" [] n = 1 -> "1" [] n = 2 -> "2" [] n = 3 -> "3"
      [] n = 4 -> "4" [] n = 5 -> "5" [] n = 6 -> "6" [] n = 7 -> "7"
      [] n = 8 -> "8" [] n = 9 -> "9"

\* one line of `lscpu -p`: CPU,Core,Socket,Node
LscpuLine(cpu_id, core_id, socket_id) ==
    <<DigitChar(cpu_id), ",", DigitChar(core_id), ",", DigitChar(socket_id),
      ",", "0">>

\* the CPUs of the machine as <<cpu_id, core_id, socket_id>>: three sockets of
\* two cores, cpu 6 the second thread of core 0 of socket 0
MachineCpus ==
    << <<0, 0, 0>>, <<1, 1, 0>>, <<2, 0, 1>>, <<3, 1, 1>>, <<4, 0, 2>>,
       <<5, 1, 2>>, <<6, 0, 0>> >>

\* what `lscpu -p` prints for it: a header, a line per CPU, a final newline
LscpuSample ==
    Join(<< <<"#", " ", "C", "P", "U", ",", "C", "o", "r", "e">> >>
         \o [i \in 1..Len(MachineCpus) |->
               LscpuLine(MachineCpus[i][1], MachineCpus[i][2], MachineCpus[i][3])]
         \o << <<>> >>, "\n")

\* the lines a text is made of: those of the sample, in any order and number,
\* a line with a word for an id, a line of two columns, and the line of cpu 1
\* with a tab before the id and the core id as an Arabic-Indic digit
LscpuLines ==
    ToSet(Split(LscpuSample, "\n"))
    \cup {<<"0", ",", "x", ",", "0">>, <<"0", ",", "0">>,
          <<"\t", "1", ",", "U+0661", ",", "0", ",", "0">>}

SocketIds == {MachineCpus[i][3] : i \in 1..Len(MachineCpus)}

IsolatedChoices == {{}, {0, 2, 6}, {0, 1, 3}}

Modes == {"packed", "spread", "vertical"}

Pools == {"exclusive", "shared"}

QueriedPools == Pools \cup {"infra"}

QueriedSocketIds == SocketIds \cup {7}

-----------------------------------------------------------------------------
(* The state machine.                                                       *)

NoCall == [op |-> "none", arg |-> NoneVal]

NoRet == [op |-> "none", arg |-> NoneVal, value |-> NoneVal]

Returned(op, arg, value) == [op |-> op, arg |-> arg, value |-> value]

spread_vars == <<isolated_cores, socket_cores, for_sockets, for_i, output_cores>>

isol_vars == <<cmdline_src, cmdline, isol>>

platform_vars == <<isolated_cpus, sockets, exc>>

NoSpread ==
    /\ isolated_cores = FALSE
    /\ socket_cores = <<>>
    /\ for_sockets = <<>>
    /\ for_i = 0
    /\ output_cores = <<>>

\* the cores of the whole Platform, and those that carry a pool
AllCores(socks) == allocate_packed(socks, FALSE)

CoreAt(socks, r) == Get(Get(socks, r.socket).cores, r.core)

NumCpus(socks) ==
    LET cs == AllCores(socks)
        RECURSIVE sum(_)
        sum(i) == IF i = 0 THEN 0 ELSE sum(i - 1) + Len(CoreAt(socks, cs[i]).cpus)
    IN  sum(Len(cs))

NumPooled(socks) ==
    Cardinality({i \in 1..Len(AllCores(socks)) :
                    CoreAt(socks, AllCores(socks)[i]).pool # None})

\* isolcpus(): the command line is read and parsed
InitIsol ==
    /\ pc = "isolcpus"
    /\ cmdline_src \in SeqsUpTo(Fields, MaxFields)
    /\ \E sep \in Separators : cmdline = CmdlineText(cmdline_src, sep)
    /\ isol = Ok({})
    /\ isolated_cpus = {}
    /\ sockets = <<>>
    /\ exc = None
    /\ call = NoCall
    /\ ret = NoRet
    /\ NoSpread

Isolcpus ==
    /\ pc = "isolcpus"
    /\ isol' = parse_isolcpus(cmdline)
    /\ pc' = "isolcpus_done"
    /\ UNCHANGED <<cmdline_src, cmdline, platform_vars, call, ret, spread_vars>>

\* parse(lscpu_output, isolated_cpus) is entered
Init ==
    /\ pc = "parse"
    /\ cmdline_src = <<>>
    /\ cmdline = <<>>
    /\ isol = Ok({})
    /\ isolated_cpus \in IsolatedChoices
    /\ sockets = <<>>
    /\ exc = None
    /\ call = NoCall
    /\ ret = NoRet
    /\ NoSpread

\* one more line of lscpu_output goes through the loop of parse
ParseLine(line) ==
    /\ pc = "parse"
    /\ NumCpus(sockets) < MaxCpus
    /\ LET r == parse_line(sockets, line, isolated_cpus) IN
       IF r.exc # None
       THEN /\ pc' = "failed"
            /\ exc' = r.exc
            /\ UNCHANGED sockets
       ELSE /\ sockets' = r.val
            /\ UNCHANGED <<pc, exc>>
    /\ UNCHANGED <<isol_vars, isolated_cpus, call, ret, spread_vars>>

\* the text has no more lines: return Platform(sockets)
ParseReturn ==
    /\ pc = "parse"
    /\ pc' = "ready"
    /\ UNCHANGED <<isol_vars, platform_vars, call, ret, spread_vars>>

\* a query that is one expression: has_isolated_cores, get_socket,
\* get_shared_cores, get_cores_from_pool
Query(op, arg, value) ==
    /\ pc = "ready"
    /\ call' = [op |-> op, arg |-> arg]
    /\ ret' = Returned(op, arg, value)
    /\ UNCHANGED <<pc, isol_vars, platform_vars, spread_vars>>

HasIsolatedCores ==
    Query("has_isolated_cores", NoneVal, [bool |-> has_isolated_cores(sockets)])

GetSocket(id) == Query("get_socket", [id |-> id], get_socket(sockets, id))

GetSharedCores ==
    Query("get_shared_cores", NoneVal, [list |-> get_shared_cores(sockets)])

GetCoresFromPool(pool) ==
    Query("get_cores_from_pool", [pool |-> pool],
          [list |-> get_cores_from_pool(sockets, pool)])

\* get_cores_general(mode, isolated), called as op(mode): packed returns at
\* once, spread enters allocate_spread and runs its first loop
GetCoresGeneral(op, mode, isolated) ==
    /\ pc = "ready"
    /\ call' = [op |-> op, arg |-> [mode |-> mode]]
    /\ IF effective_mode(mode) = "packed"
       THEN /\ ret' = Returned(op, [mode |-> mode],
                               [list |-> allocate_packed(sockets, isolated)])
            /\ UNCHANGED <<pc, spread_vars>>
       ELSE IF effective_mode(mode) # "spread"
       THEN /\ ret' = Returned(op, [mode |-> mode], NoneVal)
            /\ UNCHANGED <<pc, spread_vars>>
       ELSE /\ ret' = NoRet
            /\ pc' = "while"
            /\ isolated_cores' = isolated
            /\ socket_cores' = spread_lists(sockets, isolated)
            /\ output_cores' = <<>>
            /\ UNCHANGED <<for_sockets, for_i>>
    /\ UNCHANGED <<isol_vars, platform_vars>>

GetCores(mode) == GetCoresGeneral("get_cores", mode, FALSE)

GetIsolatedCores(mode) == GetCoresGeneral("get_isolated_cores", mode, TRUE)

\* `while len(socket_cores) > 0`: a new pass over the keys, or the return
SpreadWhile ==
    /\ pc = "while"
    /\ IF Len(socket_cores) > 0
       THEN /\ for_sockets' = Keys(socket_cores)
            /\ for_i' = 1
            /\ pc' = "for"
            /\ UNCHANGED <<ret, isolated_cores, socket_cores, output_cores>>
       ELSE /\ ret' = Returned(call.op, call.arg, [list |-> output_cores])
            /\ pc' = "ready"
            /\ isolated_cores' = FALSE
            /\ socket_cores' = <<>>
            /\ for_sockets' = <<>>
            /\ for_i' = 0
            /\ output_cores' = <<>>
    /\ UNCHANGED <<isol_vars, platform_vars, call>>

\* a faulty variant: a socket is taken from until it is empty (`while` for `if`)
SpreadForBodyDrains ==
    /\ pc = "for"
    /\ for_i <= Len(for_sockets)
    /\ LET socket == for_sockets[for_i]
           cores  == Get(socket_cores, socket)
       IN  IF Len(cores) = 0
           THEN /\ socket_cores' = Del(socket_cores, socket)
                /\ for_i' = for_i + 1
                /\ UNCHANGED output_cores
           ELSE /\ output_cores' = Append(output_cores, cores[1])
                /\ socket_cores' = Put(socket_cores, socket, Tail(cores))
                /\ UNCHANGED for_i
    /\ UNCHANGED <<pc, isol_vars, platform_vars, call, ret, isolated_cores,
                   for_sockets>>

\* a faulty variant: a socket is dropped with its last core still on the list (`<= 1`)
SpreadForBodyDropsLast ==
    /\ pc = "for"
    /\ for_i <= Len(for_sockets)
    /\ LET socket == for_sockets[for_i]
           cores  == Get(socket_cores, socket)
       IN  IF Len(cores) <= 1
           THEN /\ socket_cores' = Del(socket_cores, socket)
                /\ UNCHANGED output_cores
           ELSE /\ output_cores' = Append(output_cores, cores[1])
                /\ socket_cores' = Put(socket_cores, socket, Tail(cores))
    /\ for_i' = for_i + 1
    /\ UNCHANGED <<pc, isol_vars, platform_vars, call, ret, isolated_cores,
                   for_sockets>>

\* a faulty variant: the working list is the Socket's own mapping, so the head is
\* deleted from the Platform as well
SpreadForBodyAliased ==
    /\ pc = "for"
    /\ for_i <= Len(for_sockets)
    /\ LET socket == for_sockets[for_i]
           cores  == Get(socket_cores, socket)
       IN  IF Len(cores) = 0
           THEN /\ socket_cores' = Del(socket_cores, socket)
                /\ UNCHANGED <<output_cores, sockets>>
           ELSE /\ output_cores' = Append(output_cores, cores[1])
                /\ socket_cores' = Put(socket_cores, socket, Tail(cores))
                /\ sockets' = Put(sockets, socket,
                                  [Get(sockets, socket) EXCEPT
                                     !.cores = Del(@, cores[1].core)])
    /\ for_i' = for_i + 1
    /\ UNCHANGED <<pc, isol_vars, isolated_cpus, exc, call, ret, isolated_cores,
                   for_sockets>>

\* a faulty variant: an exhausted socket is skipped and stays in socket_cores
SpreadForBodyKeepsEmpty ==
    /\ pc = "for"
    /\ for_i <= Len(for_sockets)
    /\ LET socket == for_sockets[for_i]
           cores  == Get(socket_cores, socket)
       IN  IF Len(cores) = 0
           THEN UNCHANGED <<socket_cores, output_cores>>
           ELSE /\ output_cores' = Append(output_cores, cores[1])
                /\ socket_cores' = Put(socket_cores, socket, Tail(cores))
    /\ for_i' = for_i + 1
    /\ UNCHANGED <<pc, isol_vars, platform_vars, call, ret, isolated_cores,
                   for_sockets>>

\* the body of `for socket in sockets` on the socket at for_i
SpreadForBody ==
    /\ pc = "for"
    /\ for_i <= Len(for_sockets)
    /\ LET r == for_body(socket_cores, output_cores, for_sockets[for_i])
       IN  /\ socket_cores' = r.socket_cores
           /\ output_cores' = r.output_cores
    /\ for_i' = for_i + 1
    /\ UNCHANGED <<pc, isol_vars, platform_vars, call, ret, isolated_cores,
                   for_sockets>>

\* the for loop has gone through its list: back to the while test
SpreadForEnd ==
    /\ pc = "for"
    /\ for_i > Len(for_sockets)
    /\ pc' = "while"
    /\ UNCHANGED <<isol_vars, platform_vars, call, ret, spread_vars>>

SpreadStep == SpreadWhile \/ SpreadForBody \/ SpreadForEnd

\* the pool-assignment collaborator writes one Core.pool; what an earlier
\* call returned was said of the Platform as it was, and is dropped
SetPool(r, pool) ==
    /\ pc = "ready"
    /\ LET socket0 == Get(sockets, r.socket)
           core1   == [Get(socket0.cores, r.core) EXCEPT !.pool = pool]
           socket1 == [socket0 EXCEPT !.cores = Put(@, r.core, core1)]
           after   == Put(sockets, r.socket, socket1)
       IN  /\ NumPooled(after) <= MaxPooled
           /\ sockets' = after
    /\ call' = NoCall
    /\ ret' = NoRet
    /\ UNCHANGED <<pc, isol_vars, isolated_cpus, exc, spread_vars>>

Next ==
    \/ \E line \in LscpuLines : ParseLine(line)
    \/ ParseReturn
    \/ HasIsolatedCores
    \/ \E id \in QueriedSocketIds : GetSocket(id)
    \/ GetSharedCores
    \/ \E pool \in QueriedPools : GetCoresFromPool(pool)
    \/ \E mode \in Modes : GetCores(mode)
    \/ \E mode \in Modes : GetIsolatedCores(mode)
    \/ SpreadWhile
    \/ SpreadForBody
    \/ SpreadForEnd

Spec == Init /\ [][Next]_vars

\* allocate_spread is sequential code: once entered it keeps running
FairSpec == Spec /\ WF_vars(SpreadStep)

NextPool ==
    \/ \E line \in LscpuLines : ParseLine(line)
    \/ ParseReturn
    \/ \E i \in 1..Len(AllCores(sockets)), pool \in Pools \cup {None} :
          SetPool(AllCores(sockets)[i], pool)
    \/ \E pool \in QueriedPools : GetCoresFromPool(pool)

\* pools are looked at on a Platform that has no isolated cpu
InitPool == Init /\ isolated_cpus = {}

PoolSpec == InitPool /\ [][NextPool]_vars

NextIsol == Isolcpus

IsolSpec == InitIsol /\ [][NextIsol]_vars

-----------------------------------------------------------------------------
(* What the properties are stated with.                                     *)

\* the place of socket id in Platform order
SockPos(socks, id) == CHOOSE i \in 1..Len(socks) : socks[i][1] = id

\* the Core objects of the Platform, all or the isolated ones, as a set
EligibleRefs(socks, isolated) ==
    UNION {{CoreRef(socks[i][2], socks[i][2].cores[j][2]) :
              j \in {k \in 1..Len(socks[i][2].cores) :
                       isolated => is_isolated(socks[i][2].cores[k][2])}} :
           i \in 1..Len(socks)}

\* the list one socket offers to an allocation
EligibleOf(socks, id, isolated) ==
    IF isolated THEN Socket_get_isolated_cores(Get(socks, id))
    ELSE Socket_get_cores(Get(socks, id))

OfSocket(out, id) == SelectSeq(out, LAMBDA r : r.socket = id)

IsAllocation == ret.op \in {"get_cores", "get_isolated_cores"}

RetIsolated == ret.op = "get_isolated_cores"

SpreadReturned == pc = "ready" /\ IsAllocation /\ ret.arg.mode = "spread"

PackedReturned == pc = "ready" /\ IsAllocation /\ ret.arg.mode = "packed"

\* the list the last call returned
RetList == ret.value.list

InSpread == pc \in {"while", "for"}

\* the spread output so far: the list being built, or the list returned
SpreadOut ==
    IF InSpread THEN output_cores
    ELSE IF SpreadReturned THEN RetList ELSE <<>>

SpreadIsolated == IF InSpread THEN isolated_cores ELSE RetIsolated

\* which pick of its socket position p of out is
Round(out, p) == Cardinality({q \in 1..p : out[q].socket = out[p].socket})

-----------------------------------------------------------------------------
(* C1: spread is a round robin.  At every moment of allocate_spread and in  *)
(* the list it returns, picks are ordered by round and, within a round, by  *)
(* Platform socket order; and between two consecutive picks from one socket *)
(* every other socket that still had a core left at the first of the two is *)
(* picked exactly once, every other socket not at all.                      *)
C1_SpreadRoundRobin ==
    LET out == SpreadOut
        n   == Len(out)
        Between(i, j, id) == {k \in (i + 1)..(j - 1) : out[k].socket = id}
        PickedBefore(i, id) == {k \in 1..(i - 1) : out[k].socket = id}
    IN
    /\ \A p, q \in 1..n :
          p < q =>
            \/ Round(out, p) < Round(out, q)
            \/ /\ Round(out, p) = Round(out, q)
               /\ SockPos(sockets, out[p].socket) < SockPos(sockets, out[q].socket)
    /\ \A i, j \in 1..n :
          (/\ i < j
           /\ out[i].socket = out[j].socket
           /\ Between(i, j, out[i].socket) = {})
          => \A t \in 1..Len(sockets) :
                LET id == sockets[t][1] IN
                id # out[i].socket =>
                  Cardinality(Between(i, j, id)) =
                    IF Len(EligibleOf(sockets, id, SpreadIsolated))
                          > Cardinality(PickedBefore(i, id))
                    THEN 1 ELSE 0

\* a socket was picked a second time while two other sockets had cores left
C1_Witness ==
    /\ SpreadReturned
    /\ Len(sockets) = 3
    /\ \E i, j \in 1..Len(RetList) :
          /\ i + 2 < j
          /\ RetList[i].socket = RetList[j].socket

-----------------------------------------------------------------------------
(* C2: packed is the concatenation of the sockets' lists in Platform order: *)
(* sockets never go backwards along the list, and what the list holds of    *)
(* one socket is that socket's own list (all cores, or the isolated ones).  *)
C2_PackedIsConcatenation ==
    PackedReturned =>
      LET out == RetList IN
      /\ \A p, q \in 1..Len(out) :
            p < q => SockPos(sockets, out[p].socket) <= SockPos(sockets, out[q].socket)
      /\ \A t \in 1..Len(sockets) :
            OfSocket(out, sockets[t][1]) =
              EligibleOf(sockets, sockets[t][1], RetIsolated)
      /\ \A p \in 1..Len(out) : HasKey(sockets, out[p].socket)

\* packed returned the cores of three sockets, one of them with two cores
C2_Witness ==
    /\ PackedReturned
    /\ Len(sockets) = 3
    /\ Len(RetList) = 4

-----------------------------------------------------------------------------
(* C3: packed and spread both return every eligible core exactly once: the  *)
(* length is the number of eligible cores (all cores for get_cores, the     *)
(* isolated ones for get_isolated_cores) and the set of elements is the set *)
(* of eligible cores, so the two are permutations of one another.           *)
C3_SameCoresBothModes ==
    (PackedReturned \/ SpreadReturned) =>
      /\ Len(RetList) = Cardinality(EligibleRefs(sockets, RetIsolated))
      /\ ToSet(RetList) = EligibleRefs(sockets, RetIsolated)
      /\ Len(RetList) = Len(allocate_packed(sockets, RetIsolated))

\* spread returned four cores in an order that is not the packed one
C3_Witness ==
    /\ SpreadReturned
    /\ Len(RetList) = 4
    /\ RetList # allocate_packed(sockets, RetIsolated)

-----------------------------------------------------------------------------
(* C4: what a cpu list item stands for, written down item by item.          *)

TokenIds(t) ==
    CASE t = <<"0">> -> {0}
      [] t = <<"2", "-", "3">> -> {2, 3}
      [] t = <<"1", "-", "4">> -> {1, 2, 3, 4}
      [] t = <<"1", "-", "2", "-", "3">> -> {}
      [] t = <<"x">> -> {}
      [] t = <<"U+0663">> -> {3}

IsInteger(t) == t # <<"x">>

\* the key=value fields of a command line with the given key
FieldsOf(src, key) ==
    {i \in 1..Len(src) : src[i].key = key /\ Len(src[i].lists) = 1}

\* the ids listed under key
Listed(src, key) ==
    UNION {UNION {TokenIds(src[i].lists[1][j]) : j \in 1..Len(src[i].lists[1])} :
           i \in FieldsOf(src, key)}

AllIntegers(src) ==
    \A i \in FieldsOf(src, KeyIsolcpus) \cup FieldsOf(src, KeyRcuNocbs) :
       \A j \in 1..Len(src[i].lists[1]) : IsInteger(src[i].lists[1][j])

ExpectedIsolated(src) ==
    IF Listed(src, KeyIsolcpus) # {} /\ Listed(src, KeyRcuNocbs) # {}
    THEN Listed(src, KeyRcuNocbs) \ Listed(src, KeyIsolcpus)
    ELSE {}

(* C4: on a command line whose ids are integers, parse_isolcpus returns the *)
(* ids listed under rcu_nocbs that are not listed under isolcpus when both  *)
(* keys list at least one id, and nothing otherwise.                        *)
C4_NocbsMinusIsol ==
    (pc = "isolcpus_done" /\ AllIntegers(cmdline_src)) =>
       /\ isol.exc = None
       /\ isol.val = ExpectedIsolated(cmdline_src)

\* "isolcpus=0,2-3" and "rcu_nocbs=1-4,3", the 3 an Arabic-Indic digit and a
\* VT after each field, gave {1, 4}
C4_Witness ==
    /\ pc = "isolcpus_done"
    /\ cmdline_src = <<[key |-> KeyIsolcpus, lists |-> << <<<<"0">>, <<"2", "-", "3">>>> >>],
                       [key |-> KeyRcuNocbs,
                        lists |-> << <<<<"1", "-", "4">>, <<"U+0663">>>> >>]>>
    /\ Contains(cmdline, VT)
    /\ isol = Ok({1, 4})

-----------------------------------------------------------------------------
(* C5: after parse every Socket's cores are in ascending core_id order and  *)
(* every Core's cpus in ascending cpu_id order.                             *)
C5_SortedAfterParse ==
    pc = "ready" =>
      \A i \in 1..Len(sockets) :
         LET cores == sockets[i][2].cores IN
         /\ \A j, k \in 1..Len(cores) :
               j < k => cores[j][2].core_id < cores[k][2].core_id
         /\ \A j \in 1..Len(cores) :
               LET cpus == cores[j][2].cpus IN
               \A k, l \in 1..Len(cpus) :
                  k < l => cpus[k][2].cpu_id < cpus[l][2].cpu_id

-----------------------------------------------------------------------------
(* C6: parse_isolcpus never fails on a malformed item: a range of the wrong *)
(* arity, a field without "=" and a non-integer id are skipped, and the     *)
(* result is the one of the remaining items.                                *)
C6_MalformedSkipped ==
    pc = "isolcpus_done" =>
       /\ isol.exc = None
       /\ isol.val = ExpectedIsolated(cmdline_src)

-----------------------------------------------------------------------------
(* C7: get_cores_from_pool(p) returns the cores whose pool is p, each once, *)
(* ordered by socket in Platform order and by ascending core_id within a    *)
(* socket; the empty list when no core has pool p.                          *)
C7_PoolCoresInOrder ==
    (pc = "ready" /\ ret.op = "get_cores_from_pool") =>
      LET out == RetList
          has == {r \in EligibleRefs(sockets, FALSE) :
                    CoreAt(sockets, r).pool = ret.arg.pool}
      IN
      /\ ToSet(out) = has
      /\ Len(out) = Cardinality(has)
      /\ \A p, q \in 1..Len(out) :
            p < q =>
              \/ SockPos(sockets, out[p].socket) < SockPos(sockets, out[q].socket)
              \/ /\ out[p].socket = out[q].socket
                 /\ out[p].core < out[q].core

-----------------------------------------------------------------------------
(* C8: a mode other than "packed" and "spread" gives get_cores and          *)
(* get_isolated_cores the packed result, and get_socket of an id the        *)
(* Platform does not have gives None.                                       *)
C8_UnknownModeIsPacked ==
    /\ (IsAllocation /\ ret.arg.mode \notin {"packed", "spread"}) =>
          /\ pc = "ready"
          /\ ret.value = [list |-> allocate_packed(sockets, RetIsolated)]
    /\ (ret.op = "get_socket" /\ ~HasKey(sockets, ret.arg.id)) =>
          /\ pc = "ready"
          /\ ret.value = NoneVal
    /\ (ret.op = "get_socket" /\ HasKey(sockets, ret.arg.id)) =>
          ret.value = [socket |-> Get(sockets, ret.arg.id)]

\* mode "vertical" returned a packed list that spread would order otherwise
C8_Witness ==
    /\ IsAllocation
    /\ ret.arg.mode = "vertical"
    /\ Len(RetList) = 4
    /\ Len(sockets) = 3

-----------------------------------------------------------------------------
(* C9: no query and no allocation changes the Platform: from the moment     *)
(* parse has returned, no step of has_isolated_cores, get_socket,           *)
(* get_shared_cores, get_cores, get_isolated_cores or allocate_spread       *)
(* changes the sockets, their cores and order, the cpus or a pool; so the   *)
(* list a call returned is the list the same call would return again.      *)
C9_QueriesKeepPlatform ==
    /\ [][(pc \in {"ready", "while", "for"}) => (sockets' = sockets)]_vars
    /\ [](SpreadReturned => RetList = allocate_spread(sockets, RetIsolated))
    /\ [](PackedReturned => RetList = allocate_packed(sockets, RetIsolated))

\* allocate_spread has taken cores off its working lists
C9_Witness ==
    /\ pc = "for"
    /\ Len(output_cores) >= 3
    /\ Len(AllCores(sockets)) = 4

-----------------------------------------------------------------------------
(* C10: allocate_spread terminates.  Every pass of the for body takes one   *)
(* core off a working list or drops one exhausted socket, so the number of  *)
(* cores left plus the number of sockets left goes down by one; the call    *)
(* returns; and a socket with no eligible core is not in the output.        *)
SpreadMeasure ==
    Len(socket_cores) + Len(Concat(Values(socket_cores)))

C10_SpreadTerminates ==
    /\ [][SpreadForBody => (SpreadMeasure' = SpreadMeasure - 1)]_vars
    /\ [](InSpread => <>(pc = "ready"))
    /\ [](SpreadReturned =>
            \A t \in 1..Len(sockets) :
               EligibleOf(sockets, sockets[t][1], RetIsolated) = <<>> =>
                 OfSocket(RetList, sockets[t][1]) = <<>>)

\* get_isolated_cores("spread") returned on a Platform with a socket that has
\* no isolated core and one that has
C10_Witness ==
    /\ SpreadReturned
    /\ RetIsolated
    /\ Len(RetList) >= 1
    /\ \E t \in 1..Len(sockets) :
          EligibleOf(sockets, sockets[t][1], TRUE) = <<>>

\* allocate_spread returned the empty list for a Platform of no socket
C10_WitnessNoSocket == SpreadReturned /\ sockets = <<>> /\ RetList = <<>>

=============================================================================
